---- MODULE Spec2Model ----
(***************************************************************************)
(* Paper-trading engine and position ledger of StarkMatter.                *)
(*                                                                         *)
(* The database (tables paper_account, positions, trades, market_data) is  *)
(* the state.  Every execute_query call of the code opens a connection,    *)
(* runs one statement and commits it (database.py:57-77), so every write   *)
(* operator below is one committed write.                                  *)
(*                                                                         *)
(* Spec      one request at a time, each handler run to completion         *)
(* SpecStep  place_order run one committed statement at a time; the        *)
(*           process may stop or a storage write may fail between two      *)
(*           statements                                                    *)
(***************************************************************************)
EXTENDS Integers, Sequences, FiniteSets, TLC

\* ---------------------------------------------------------------- bounds
MaxOps == 4

\* SpecStep: number of place_order calls
MaxCalls == 2

MaxConnects == 3

MaxPeriods == 2

\* ---------------------------------------------------------------- inputs
Symbols == {"AAPL", "MSFT"}

\* the workers that serve requests
Procs == {1, 2}

Prices == {100, 110}

\* what get_current_price can read after an import: a close, or None when the
\* latest bar was stored with a NULL close
Closes == {[close |-> 100], [close |-> 110], [none |-> TRUE]}

Quantities == {-5, 0, 5, 10}

PositionQuantities == {0, 5}

Limits == {1, 50}

Clients == {"c1", "c2", "c3"}

ResetBalances == {1000, 10000}

BUY == <<"B", "U", "Y">>

SELL == <<"S", "E", "L", "L">>

OrderTypes == {BUY, SELL, <<"b", "u", "y">>, <<"S", "e", "l", "l">>, <<"H", "O", "L", "D">>}

\* SpecStep: the orders placed
StepQuantities == {-5, 5, 10}

StepOrderTypes == {BUY, <<"S", "e", "l", "l">>, <<"H", "O", "L", "D">>}

\* Python's None (a missing row, an absent value)
None == [none |-> TRUE]

\* default starting_balance of reset_account
DefaultBalance == 10000

\* ---------------------------------------------------------------- values

\* str.upper() on the letters the order types are written with
UpperChar(c) ==
  CASE c = "b" -> "B"
    [] c = "u" -> "U"
    [] c = "y" -> "Y"
    [] c = "s" -> "S"
    [] c = "e" -> "E"
    [] c = "l" -> "L"
    [] c = "h" -> "H"
    [] c = "o" -> "O"
    [] c = "d" -> "D"
    [] OTHER -> c

Upper(s) == [i \in DOMAIN s |-> UpperChar(s[i])]

Abs(x) == IF x < 0 THEN -x ELSE x

RECURSIVE GCD(_, _)
GCD(a, b) == IF b = 0 THEN a ELSE GCD(b, a % b)

\* the quotient n / d (d # 0) of Python's true division, kept exact as a
\* fraction in lowest terms with a positive denominator
Rat(n, d) ==
  LET g == GCD(Abs(n), Abs(d))
      s == IF d < 0 THEN -1 ELSE 1
  IN [n |-> (s * n) \div g, d |-> (s * d) \div g]

\* a price stored as average_cost
RatOf(x) == [n |-> x, d |-> 1]

\* a + b, a - b and k * a on these numbers
RatPlus(a, b) == Rat(a.n * b.d + b.n * a.d, a.d * b.d)

RatMinus(a, b) == Rat(a.n * b.d - b.n * a.d, a.d * b.d)

RatTimes(k, a) == Rat(k * a.n, a.d)

\* Python truthiness of the Optional[float] read from a market_data row:
\* None and 0.0 are falsy
Truthy(x) == x # None /\ x.close # 0

\* Python truthiness of an Optional[Dict] row: None is falsy, a row is not
RowTruthy(r) == r # None

\* ---------------------------------------------------------------- state
VARIABLES
  db,      \* paper_account row 1, positions table, paper trades
  market,  \* latest market_data row [close] per symbol, None when there is no bar
  last,    \* the last completed request: its arguments, its result, the state before it
  expected,\* starting balance - cost of the successful BUYs + proceeds of the successful SELLs
  proc,    \* SpecStep: per worker, the place_order call it is running and its local variables
  nops,    \* number of requests so far
  frame,   \* SpecSignals: the bars find_signals reads and the indicators of the series
  signals, \* SpecSignals: what find_signals returned
  ws       \* SpecQuotes: the connection manager and the stream_quotes tasks of /ws/quotes

vars == <<db, market, last, expected, proc, nops, frame, signals, ws>>

\* the paper trading state, left alone by the signal detector and the quote stream
trading == <<db, market, last, expected, proc, nops>>

\* the state the paper trading requests leave alone
others == <<frame, signals, ws>>

\* get_market_data found no row: pd.DataFrame()
NoBars == [columns |-> {}, nbars |-> 0, reading |-> None]

\* find_signals has not been called
NotRun == [ran |-> FALSE]

\* manager = ConnectionManager() and no stream_quotes task
Unconnected ==
  [active_connections |-> {}, tasks |-> <<>>, received |-> [c \in Clients |-> 0],
   connects |-> 0, periods |-> 0]

NoCall == [op |-> "none"]

\* ---------------------------------------------------------------- storage

\* SELECT balance FROM paper_account WHERE id = 1
get_balance(d) == d.balance

\* mutant: the query without its WHERE clause reads the close of any symbol
get_current_priceAnySymbol(m, symbol) ==
  IF \E s \in Symbols : m[s] # None
    THEN m[CHOOSE s \in Symbols : m[s] # None]
    ELSE None

\* SELECT close FROM market_data WHERE symbol = ? ORDER BY date DESC LIMIT 1
get_current_price(m, symbol) == m[symbol]

\* SELECT * FROM positions WHERE symbol = ?
get_position(d, symbol) == d.positions[symbol]

\* UPDATE paper_account SET balance = ?
update_balance(d, new_balance) == [d EXCEPT !.balance = new_balance]

\* UPDATE positions SET quantity = ?, average_cost = ? WHERE symbol = ?
UpdatePosition(d, symbol, quantity, average_cost) ==
  IF d.positions[symbol] = None THEN d
  ELSE [d EXCEPT !.positions[symbol] = [quantity |-> quantity, average_cost |-> average_cost]]

\* INSERT INTO positions (symbol, quantity, average_cost)
InsertPosition(d, symbol, quantity, price) ==
  [d EXCEPT !.positions[symbol] = [quantity |-> quantity, average_cost |-> RatOf(price)]]

\* mutant: the UPDATE of the quantity also overwrites average_cost
UpdateQuantityResetsCost(d, symbol, quantity) ==
  IF d.positions[symbol] = None THEN d
  ELSE [d EXCEPT !.positions[symbol] = [quantity |-> quantity, average_cost |-> RatOf(0)]]

\* UPDATE positions SET quantity = ? WHERE symbol = ?
UpdateQuantity(d, symbol, quantity) ==
  IF d.positions[symbol] = None THEN d
  ELSE [d EXCEPT !.positions[symbol] = [quantity |-> quantity, average_cost |-> @.average_cost]]

\* DELETE FROM positions WHERE symbol = ?
DeletePosition(d, symbol) == [d EXCEPT !.positions[symbol] = None]

\* INSERT INTO trades (symbol, action, quantity, price, balance_after, paper_trade)
\* the timestamp the trades table gives a row that is inserted without one:
\* later than the timestamp of every row committed before
CommitTime(d) ==
  IF d.trades = <<>> THEN 1
  ELSE 1 + CHOOSE t \in {d.trades[i].timestamp : i \in DOMAIN d.trades} :
             \A i \in DOMAIN d.trades : d.trades[i].timestamp <= t

\* mutant: INSERT OR REPLACE with the symbol as the key of the row
_log_tradeReplacing(d, symbol, action, quantity, price, balance_after) ==
  LET OtherSymbol(row) == row.symbol # symbol
  IN [d EXCEPT !.trades = Append(SelectSeq(@, OtherSymbol),
                                 [symbol |-> symbol, action |-> action,
                                  quantity |-> quantity, price |-> price,
                                  balance_after |-> balance_after,
                                  timestamp |-> CommitTime(d)])]

\* INSERT INTO trades (symbol, action, quantity, price, balance_after, paper_trade)
_log_trade(d, symbol, action, quantity, price, balance_after) ==
  [d EXCEPT !.trades = Append(@, [symbol |-> symbol, action |-> action,
                                  quantity |-> quantity, price |-> price,
                                  balance_after |-> balance_after,
                                  timestamp |-> CommitTime(d)])]

\* ORDER BY timestamp DESC over the rows numbered in rows
RECURSIVE OrderByTimestampDesc(_, _)
OrderByTimestampDesc(trades, rows) ==
  IF rows = {} THEN <<>>
  ELSE LET i == CHOOSE i \in rows :
                  \A j \in rows : trades[j].timestamp <= trades[i].timestamp
       IN <<trades[i]>> \o OrderByTimestampDesc(trades, rows \ {i})

\* mutant: the rows in ascending order of timestamp
get_trade_historyAscending(d, limit) ==
  IF Len(d.trades) <= limit THEN d.trades ELSE SubSeq(d.trades, 1, limit)

\* SELECT * FROM trades WHERE paper_trade = 1 ORDER BY timestamp DESC LIMIT ?
get_trade_history(d, limit) ==
  LET rows == OrderByTimestampDesc(d.trades, DOMAIN d.trades)
  IN IF Len(rows) <= limit THEN rows ELSE SubSeq(rows, 1, limit)

\* ---------------------------------------------------------------- results

\* {'status': 'error', 'message': ...}; kind names the message
Error(kind) == [status |-> "error", kind |-> kind]

\* an exception leaving the function
Raise(kind) == [status |-> "raise", kind |-> kind]

\* ---------------------------------------------------------------- PaperTradingEngine

\* mutant: the comparison of the funds check reversed
InsufficientFundsReversed(cost, balance) == balance > cost

\* the funds check of _execute_buy
InsufficientFunds(cost, balance) == cost > balance

\* mutant: the check of the held quantity left out
SellRejectionNoSharesCheck(position, quantity) ==
  IF ~RowTruthy(position) THEN "NoPosition" ELSE "none"

\* mutant: a missing position reported as too few shares
SellRejectionMissingAsShort(position, quantity) ==
  IF ~RowTruthy(position) THEN "InsufficientShares"
  ELSE IF quantity > position.quantity THEN "InsufficientShares"
  ELSE "none"

\* the two position checks of _execute_sell
SellRejection(position, quantity) ==
  IF ~RowTruthy(position) THEN "NoPosition"
  ELSE IF quantity > position.quantity THEN "InsufficientShares"
  ELSE "none"

\* mutant: the old quantity left out of the weighted sum
NewAverageUnweighted(old_qty, old_avg, cost, new_qty) ==
  Rat(old_avg.n + cost * old_avg.d, old_avg.d * new_qty)

\* new_avg = ((old_qty * old_avg) + cost) / new_qty
NewAverage(old_qty, old_avg, cost, new_qty) ==
  Rat(old_qty * old_avg.n + cost * old_avg.d, old_avg.d * new_qty)

\* the success result of _execute_buy
BuyResult(symbol, quantity, price, balance) ==
  [status |-> "success", order_type |-> "BUY", symbol |-> symbol,
   quantity |-> quantity, price |-> price, total_cost |-> quantity * price,
   balance_after |-> balance - quantity * price]

_execute_buy(d, symbol, quantity, price, balance) ==
  LET cost == quantity * price
      new_balance == balance - cost
      d1 == update_balance(d, new_balance)
      position == get_position(d1, symbol)
  IN IF InsufficientFunds(cost, balance)
       THEN [db |-> d, result |-> Error("InsufficientFunds")]
     ELSE IF RowTruthy(position)
       THEN LET old_qty == position.quantity
                old_avg == position.average_cost
                new_qty == old_qty + quantity
            IN IF new_qty = 0
                 THEN [db |-> d1, result |-> Raise("ZeroDivisionError")]
                 ELSE LET d2 == UpdatePosition(d1, symbol, new_qty,
                                               NewAverage(old_qty, old_avg, cost, new_qty))
                          d3 == _log_trade(d2, symbol, "BUY", quantity, price, new_balance)
                      IN [db |-> d3, result |-> BuyResult(symbol, quantity, price, balance)]
       ELSE LET d2 == InsertPosition(d1, symbol, quantity, price)
                d3 == _log_trade(d2, symbol, "BUY", quantity, price, new_balance)
            IN [db |-> d3, result |-> BuyResult(symbol, quantity, price, balance)]

\* mutant: the closing test written with the wrong comparison
ClosesPositionBelowZero(new_qty) == new_qty < 0

\* if new_qty == 0: close the position
ClosesPosition(new_qty) == new_qty = 0

\* the success result of _execute_sell: the P&L of the trade against the
\* average cost read before the sell
SellResult(symbol, quantity, price, balance, position) ==
  LET proceeds == quantity * price
      avg == position.average_cost
      cost_basis == Rat(quantity * avg.n, avg.d)
      realized_pl == Rat(proceeds * avg.d - quantity * avg.n, avg.d)
      realized_pl_pct == IF cost_basis.n > 0
                           THEN Rat(realized_pl.n * cost_basis.d * 100,
                                    realized_pl.d * cost_basis.n)
                           ELSE RatOf(0)
  IN [status |-> "success", order_type |-> "SELL", symbol |-> symbol,
      quantity |-> quantity, price |-> price, total_proceeds |-> proceeds,
      balance_after |-> balance + proceeds,
      realized_pl |-> realized_pl, realized_pl_pct |-> realized_pl_pct]

_execute_sell(d, symbol, quantity, price, balance) ==
  LET position == get_position(d, symbol) IN
  IF SellRejection(position, quantity) # "none"
    THEN [db |-> d, result |-> Error(SellRejection(position, quantity))]
  ELSE
    LET proceeds == quantity * price
        new_balance == balance + proceeds
        d1 == update_balance(d, new_balance)
        new_qty == position.quantity - quantity
        d2 == IF ClosesPosition(new_qty) THEN DeletePosition(d1, symbol)
              ELSE UpdateQuantity(d1, symbol, new_qty)
        d3 == _log_trade(d2, symbol, "SELL", quantity, price, new_balance)
    IN [db |-> d3, result |-> SellResult(symbol, quantity, price, balance, position)]

\* an exception raised inside the try block is caught and returned as an error
place_order(d, m, symbol, quantity, order_type) ==
  LET current_price == get_current_price(m, symbol) IN
  IF ~Truthy(current_price)
    THEN [db |-> d, result |-> Error("NoPriceData")]
  ELSE
    LET balance == get_balance(d)
        r == IF Upper(order_type) = BUY
               THEN _execute_buy(d, symbol, quantity, current_price.close, balance)
             ELSE IF Upper(order_type) = SELL
               THEN _execute_sell(d, symbol, quantity, current_price.close, balance)
             ELSE [db |-> d, result |-> Error("InvalidOrderType")]
    IN IF r.result.status = "raise"
         THEN [db |-> r.db, result |-> Error(r.result.kind)]
         ELSE r

\* mutant: the UPDATE of paper_account leaves starting_balance as it was
reset_accountKeepsStarting(d, starting_balance) ==
  LET d1 == [d EXCEPT !.positions = [s \in Symbols |-> None]]
      d2 == [d1 EXCEPT !.trades = <<>>]
  IN [d2 EXCEPT !.balance = starting_balance]

reset_account(d, starting_balance) ==
  LET d1 == [d EXCEPT !.positions = [s \in Symbols |-> None]]
      d2 == [d1 EXCEPT !.trades = <<>>]
  IN [d2 EXCEPT !.balance = starting_balance, !.starting_balance = starting_balance]

\* ---------------------------------------------------------------- PortfolioService

\* the ZeroDivisionError of new_avg is logged and raised again
add_position(d, symbol, quantity, price) ==
  LET existing == get_position(d, symbol) IN
  IF RowTruthy(existing)
    THEN LET old_qty == existing.quantity
             old_cost == existing.average_cost
             new_qty == old_qty + quantity
         IN IF new_qty = 0
              THEN [db |-> d, result |-> Raise("ZeroDivisionError")]
              ELSE LET d1 == UpdatePosition(d, symbol, new_qty,
                                            NewAverage(old_qty, old_cost, quantity * price, new_qty))
                   IN [db |-> d1, result |-> get_position(d1, symbol)]
    ELSE LET d1 == InsertPosition(d, symbol, quantity, price)
         IN [db |-> d1, result |-> get_position(d1, symbol)]

remove_shares(d, symbol, quantity) ==
  LET position == get_position(d, symbol) IN
  IF ~RowTruthy(position)
    THEN [db |-> d, result |-> Raise("ValueError")]
  ELSE IF quantity > position.quantity
    THEN [db |-> d, result |-> Raise("ValueError")]
  ELSE
    LET new_qty == position.quantity - quantity IN
    IF new_qty = 0
      THEN [db |-> DeletePosition(d, symbol), result |-> None]
      ELSE LET d1 == UpdateQuantity(d, symbol, new_qty)
           IN [db |-> d1, result |-> get_position(d1, symbol)]

\* the symbols in the order of ORDER BY symbol
SymbolOrder == <<"AAPL", "MSFT">>

\* SELECT * FROM positions ORDER BY symbol
get_all_positions(d) ==
  LET Held(symbol) == d.positions[symbol] # None
      held == SelectSeq(SymbolOrder, Held)
  IN [i \in DOMAIN held |->
        [symbol |-> held[i], quantity |-> d.positions[held[i]].quantity,
         average_cost |-> d.positions[held[i]].average_cost]]

\* return {}
EmptyDict == [empty |-> TRUE]

\* mutant: a missing price is valued as 0
ValuationPriceZero(position, current_price) ==
  IF ~Truthy(current_price) THEN RatOf(0) ELSE RatOf(current_price.close)

\* if not current_price: current_price = position['average_cost']
ValuationPrice(position, current_price) ==
  IF ~Truthy(current_price) THEN position.average_cost ELSE RatOf(current_price.close)

calculate_position_value(d, m, symbol) ==
  LET position == get_position(d, symbol) IN
  IF ~RowTruthy(position) THEN EmptyDict
  ELSE
    LET current_price == ValuationPrice(position, get_current_price(m, symbol))
        market_value == RatTimes(position.quantity, current_price)
        cost_basis == RatTimes(position.quantity, position.average_cost)
        unrealized_pl == RatMinus(market_value, cost_basis)
        unrealized_pl_pct ==
          IF cost_basis.n > 0
            THEN Rat(unrealized_pl.n * cost_basis.d * 100, unrealized_pl.d * cost_basis.n)
            ELSE RatOf(0)
    IN [symbol |-> symbol, quantity |-> position.quantity,
        average_cost |-> position.average_cost, current_price |-> current_price,
        cost_basis |-> cost_basis, market_value |-> market_value,
        unrealized_pl |-> unrealized_pl, unrealized_pl_pct |-> unrealized_pl_pct]

\* mutant: the cost basis total accumulates the market value
AccumulateMarketTwice(acc, stats) ==
  [total_market_value |-> RatPlus(acc.total_market_value, stats.market_value),
   total_cost_basis |-> RatPlus(acc.total_cost_basis, stats.market_value),
   positions |-> Append(acc.positions, stats)]

\* the body of the loop of calculate_portfolio_value
Accumulate(acc, stats) ==
  [total_market_value |-> RatPlus(acc.total_market_value, stats.market_value),
   total_cost_basis |-> RatPlus(acc.total_cost_basis, stats.cost_basis),
   positions |-> Append(acc.positions, stats)]

\* for position in positions: ...
RECURSIVE ValueEach(_, _, _, _)
ValueEach(d, m, positions, acc) ==
  IF positions = <<>> THEN acc
  ELSE LET stats == calculate_position_value(d, m, Head(positions).symbol)
       IN ValueEach(d, m, Tail(positions),
                    IF stats # EmptyDict THEN Accumulate(acc, stats) ELSE acc)

calculate_portfolio_value(d, m) ==
  LET positions == get_all_positions(d)
      acc == ValueEach(d, m, positions,
                       [total_market_value |-> RatOf(0), total_cost_basis |-> RatOf(0),
                        positions |-> <<>>])
      total_pl == RatMinus(acc.total_market_value, acc.total_cost_basis)
      total_pl_pct ==
        IF acc.total_cost_basis.n > 0
          THEN Rat(total_pl.n * acc.total_cost_basis.d * 100,
                   total_pl.d * acc.total_cost_basis.n)
          ELSE RatOf(0)
  IN [total_market_value |-> acc.total_market_value,
      total_cost_basis |-> acc.total_cost_basis,
      total_pl |-> total_pl, total_pl_pct |-> total_pl_pct,
      num_positions |-> Len(positions), positions |-> acc.positions]

\* SELECT * FROM paper_account WHERE id = 1
get_account(d) == [balance |-> d.balance, starting_balance |-> d.starting_balance]

\* if current_price: positions_value += position['quantity'] * current_price
AddPositionValue(positions_value, position, current_price) ==
  IF Truthy(current_price)
    THEN RatPlus(positions_value, RatTimes(position.quantity, RatOf(current_price.close)))
    ELSE positions_value

\* for position in positions: ...
RECURSIVE PositionsValue(_, _, _)
PositionsValue(m, positions, positions_value) ==
  IF positions = <<>> THEN positions_value
  ELSE PositionsValue(m, Tail(positions),
                      AddPositionValue(positions_value, Head(positions),
                                       get_current_price(m, Head(positions).symbol)))

get_performance(d, m) ==
  LET account == get_account(d)
      positions == get_all_positions(d)
      cash_balance == account.balance
      starting_balance == account.starting_balance
      positions_value == PositionsValue(m, positions, RatOf(0))
      total_value == RatPlus(RatOf(cash_balance), positions_value)
      total_return == RatMinus(total_value, RatOf(starting_balance))
      return_pct == IF starting_balance > 0
                      THEN Rat(total_return.n * 100, total_return.d * starting_balance)
                      ELSE RatOf(0)
  IN [starting_balance |-> starting_balance, cash_balance |-> cash_balance,
      positions_value |-> positions_value, total_value |-> total_value,
      total_return |-> total_return, return_pct |-> return_pct,
      num_positions |-> Len(positions)]

\* ---------------------------------------------------------------- requests

\* a worker that runs no call
Idle ==
  [pc |-> "idle", seq |-> 0, symbol |-> "", quantity |-> 0, order_type |-> <<>>,
   current_price |-> None, balance |-> 0, position |-> None,
   result |-> None, snap |-> None]

\* the paper_account row and the empty tables after reset_account()
Installed ==
  /\ db = [balance |-> DefaultBalance, starting_balance |-> DefaultBalance,
           positions |-> [s \in Symbols |-> None], trades |-> <<>>]
  /\ market = [s \in Symbols |-> None]
  /\ last = NoCall
  /\ expected = DefaultBalance
  /\ proc = [p \in Procs |-> Idle]
  /\ nops = 0

Init ==
  /\ Installed
  /\ frame = NoBars
  /\ signals = NotRun
  /\ ws = Unconnected

\* an import writes a newer bar for the symbol
ImportPrice(symbol, row) ==
  /\ nops < MaxOps
  /\ market[symbol] # row
  /\ market' = [market EXCEPT ![symbol] = row]
  /\ last' = [op |-> "import"]
  /\ nops' = nops + 1
  /\ UNCHANGED <<others, db, expected, proc>>

PlaceOrder(symbol, quantity, order_type) ==
  /\ nops < MaxOps
  /\ LET r == place_order(db, market, symbol, quantity, order_type) IN
       /\ db' = r.db
       /\ last' = [op |-> "place_order", symbol |-> symbol, quantity |-> quantity,
                   order_type |-> order_type, result |-> r.result,
                   pre |-> db, price |-> market[symbol]]
       /\ expected' = IF r.result.status # "success" THEN expected
                      ELSE IF r.result.order_type = "BUY"
                        THEN expected - r.result.quantity * r.result.price
                        ELSE expected + r.result.quantity * r.result.price
  /\ nops' = nops + 1
  /\ UNCHANGED <<others, market, proc>>

AddPosition(symbol, quantity, price) ==
  /\ nops < MaxOps
  /\ LET r == add_position(db, symbol, quantity, price) IN
       /\ db' = r.db
       /\ last' = [op |-> "add_position", symbol |-> symbol, quantity |-> quantity,
                   result |-> r.result, pre |-> db]
  /\ nops' = nops + 1
  /\ UNCHANGED <<others, market, expected, proc>>

RemoveShares(symbol, quantity) ==
  /\ nops < MaxOps
  /\ LET r == remove_shares(db, symbol, quantity) IN
       /\ db' = r.db
       /\ last' = [op |-> "remove_shares", symbol |-> symbol, quantity |-> quantity,
                   result |-> r.result, pre |-> db]
  /\ nops' = nops + 1
  /\ UNCHANGED <<others, market, expected, proc>>

ResetAccount(starting_balance) ==
  /\ nops < MaxOps
  /\ db' = reset_account(db, starting_balance)
  /\ last' = [op |-> "reset_account", starting_balance |-> starting_balance, pre |-> db]
  /\ expected' = starting_balance
  /\ nops' = nops + 1
  /\ UNCHANGED <<others, market, proc>>

\* GET /paper/trades
TradeHistory(limit) ==
  /\ nops < MaxOps
  /\ last' = [op |-> "get_trade_history", limit |-> limit,
              result |-> get_trade_history(db, limit), pre |-> db]
  /\ nops' = nops + 1
  /\ UNCHANGED <<others, db, market, expected, proc>>

\* GET /positions/{symbol}
ValuePosition(symbol) ==
  /\ nops < MaxOps
  /\ last' = [op |-> "calculate_position_value", symbol |-> symbol,
              result |-> calculate_position_value(db, market, symbol), pre |-> db]
  /\ nops' = nops + 1
  /\ UNCHANGED <<others, db, market, expected, proc>>

\* GET /
ValuePortfolio ==
  /\ nops < MaxOps
  /\ last' = [op |-> "calculate_portfolio_value",
              result |-> calculate_portfolio_value(db, market), pre |-> db]
  /\ nops' = nops + 1
  /\ UNCHANGED <<others, db, market, expected, proc>>

\* GET /paper/performance
Performance ==
  /\ nops < MaxOps
  /\ last' = [op |-> "get_performance", result |-> get_performance(db, market), pre |-> db]
  /\ nops' = nops + 1
  /\ UNCHANGED <<others, db, market, expected, proc>>

Next ==
  \/ \E s \in Symbols, c \in Closes : ImportPrice(s, c)
  \/ \E s \in Symbols, q \in Quantities, t \in OrderTypes : PlaceOrder(s, q, t)
  \/ \E s \in Symbols, q \in PositionQuantities, p \in Prices : AddPosition(s, q, p)
  \/ \E s \in Symbols, q \in PositionQuantities : RemoveShares(s, q)
  \/ \E b \in ResetBalances : ResetAccount(b)
  \/ \E n \in Limits : TradeHistory(n)
  \/ \E s \in Symbols : ValuePosition(s)
  \/ ValuePortfolio
  \/ Performance

Spec == Init /\ [][Next]_vars

\* ---------------------------------------------------------------- place_order, statement by statement

InFlight(p) == proc[p].pc \notin {"idle", "done", "stopped"}

\* the call returns result r
Finish(p, r) == proc' = [proc EXCEPT ![p].pc = "done", ![p].result = r]

Goto(p, pc) == proc' = [proc EXCEPT ![p].pc = pc]

\* the number of the next call
NextSeq == 1 + CHOOSE m \in {proc[q].seq : q \in Procs} : \A q \in Procs : proc[q].seq <= m

\* a worker receives place_order(symbol, quantity, order_type)
StartOrder(p, symbol, quantity, order_type) ==
  /\ nops < MaxOps
  /\ \A q \in Procs : proc[q].seq < MaxCalls
  /\ proc[p].pc \in {"idle", "done"}
  /\ proc' = [proc EXCEPT ![p] = [Idle EXCEPT !.pc = "get_current_price", !.seq = NextSeq,
                                              !.symbol = symbol, !.quantity = quantity,
                                              !.order_type = order_type, !.snap = db]]
  /\ nops' = nops + 1
  /\ UNCHANGED <<others, db, market, last, expected>>

\* current_price = self.get_current_price(symbol); if not current_price: return error
GetCurrentPrice(p) ==
  /\ proc[p].pc = "get_current_price"
  /\ LET current_price == get_current_price(market, proc[p].symbol) IN
       IF ~Truthy(current_price)
         THEN Finish(p, Error("NoPriceData"))
         ELSE proc' = [proc EXCEPT ![p].pc = "get_balance", ![p].current_price = current_price]
  /\ UNCHANGED <<others, db, market, last, expected, nops>>

\* balance = self.get_balance(), the dispatch on order_type and the funds check
GetBalance(p) ==
  /\ proc[p].pc = "get_balance"
  /\ LET balance == get_balance(db)
         cost == proc[p].quantity * proc[p].current_price.close
     IN IF Upper(proc[p].order_type) = BUY
          THEN IF InsufficientFunds(cost, balance)
                 THEN Finish(p, Error("InsufficientFunds"))
                 ELSE proc' = [proc EXCEPT ![p].pc = "buy_update_balance", ![p].balance = balance]
        ELSE IF Upper(proc[p].order_type) = SELL
          THEN proc' = [proc EXCEPT ![p].pc = "sell_get_position", ![p].balance = balance]
        ELSE Finish(p, Error("InvalidOrderType"))
  /\ UNCHANGED <<others, db, market, last, expected, nops>>

\* self.update_balance(balance - cost)
BuyUpdateBalance(p) ==
  /\ proc[p].pc = "buy_update_balance"
  /\ db' = update_balance(db, proc[p].balance - proc[p].quantity * proc[p].current_price.close)
  /\ Goto(p, "buy_get_position")
  /\ UNCHANGED <<others, market, last, expected, nops>>

\* position = self.get_position(symbol) and the computation of new_avg
BuyGetPosition(p) ==
  /\ proc[p].pc = "buy_get_position"
  /\ LET position == get_position(db, proc[p].symbol) IN
       IF RowTruthy(position) /\ position.quantity + proc[p].quantity = 0
         THEN Finish(p, Error("ZeroDivisionError"))
         ELSE proc' = [proc EXCEPT ![p].pc = "buy_write_position", ![p].position = position]
  /\ UNCHANGED <<others, db, market, last, expected, nops>>

\* the UPDATE or INSERT of the position
BuyWritePosition(p) ==
  /\ proc[p].pc = "buy_write_position"
  /\ LET position == proc[p].position
         quantity == proc[p].quantity
         price == proc[p].current_price.close
     IN db' = IF RowTruthy(position)
                THEN UpdatePosition(db, proc[p].symbol, position.quantity + quantity,
                                    NewAverage(position.quantity, position.average_cost,
                                               quantity * price, position.quantity + quantity))
                ELSE InsertPosition(db, proc[p].symbol, quantity, price)
  /\ Goto(p, "buy_log_trade")
  /\ UNCHANGED <<others, market, last, expected, nops>>

\* self._log_trade(symbol, 'BUY', ...) and the success result
BuyLogTrade(p) ==
  /\ proc[p].pc = "buy_log_trade"
  /\ LET quantity == proc[p].quantity
         price == proc[p].current_price.close
         new_balance == proc[p].balance - quantity * price
     IN /\ db' = _log_trade(db, proc[p].symbol, "BUY", quantity, price, new_balance)
        /\ Finish(p, BuyResult(proc[p].symbol, quantity, price, proc[p].balance))
  /\ UNCHANGED <<others, market, last, expected, nops>>

\* position = self.get_position(symbol) and the two position checks
SellGetPosition(p) ==
  /\ proc[p].pc = "sell_get_position"
  /\ LET position == get_position(db, proc[p].symbol) IN
       IF SellRejection(position, proc[p].quantity) # "none"
         THEN Finish(p, Error(SellRejection(position, proc[p].quantity)))
         ELSE proc' = [proc EXCEPT ![p].pc = "sell_update_balance", ![p].position = position]
  /\ UNCHANGED <<others, db, market, last, expected, nops>>

\* self.update_balance(balance + proceeds)
SellUpdateBalance(p) ==
  /\ proc[p].pc = "sell_update_balance"
  /\ db' = update_balance(db, proc[p].balance + proc[p].quantity * proc[p].current_price.close)
  /\ Goto(p, "sell_write_position")
  /\ UNCHANGED <<others, market, last, expected, nops>>

\* the DELETE or UPDATE of the position
SellWritePosition(p) ==
  /\ proc[p].pc = "sell_write_position"
  /\ LET new_qty == proc[p].position.quantity - proc[p].quantity IN
       db' = IF ClosesPosition(new_qty) THEN DeletePosition(db, proc[p].symbol)
             ELSE UpdateQuantity(db, proc[p].symbol, new_qty)
  /\ Goto(p, "sell_log_trade")
  /\ UNCHANGED <<others, market, last, expected, nops>>

\* self._log_trade(symbol, 'SELL', ...) and the success result
SellLogTrade(p) ==
  /\ proc[p].pc = "sell_log_trade"
  /\ LET quantity == proc[p].quantity
         price == proc[p].current_price.close
         new_balance == proc[p].balance + quantity * price
     IN /\ db' = _log_trade(db, proc[p].symbol, "SELL", quantity, price, new_balance)
        /\ Finish(p, SellResult(proc[p].symbol, quantity, price, proc[p].balance,
                                proc[p].position))
  /\ UNCHANGED <<others, market, last, expected, nops>>

\* the statements of place_order that write to the database
WritePcs ==
  {"buy_update_balance", "buy_write_position", "buy_log_trade",
   "sell_update_balance", "sell_write_position", "sell_log_trade"}

\* execute_query raises (the connection or the statement fails): nothing is
\* written and place_order returns the exception as an error
WriteFails(p) ==
  /\ proc[p].pc \in WritePcs
  /\ Finish(p, Error("OperationalError"))
  /\ UNCHANGED <<others, db, market, last, expected, nops>>

\* the process stops in the middle of place_order
Stop(p) ==
  /\ InFlight(p)
  /\ Goto(p, "stopped")
  /\ UNCHANGED <<others, db, market, last, expected, nops>>

\* an import writes a newer bar while orders are served; place_order reads
\* market_data once, in its first statement, so an import during a call has
\* the effect of the same import before or after the call
ImportBar(symbol, row) ==
  /\ nops < MaxOps
  /\ \A p \in Procs : ~InFlight(p)
  /\ market[symbol] # row
  /\ market' = [market EXCEPT ![symbol] = row]
  /\ nops' = nops + 1
  /\ UNCHANGED <<others, db, last, expected, proc>>

\* one trade end to end at a time (the single-writer assumption)
SingleWriter(p) == \A q \in Procs \ {p} : ~InFlight(q)

\* the workers are interchangeable: a request goes to the first one that runs
FirstFree(p) == \A q \in Procs : q < p => proc[q].pc = "stopped"

OrderStep(p) ==
  \/ GetCurrentPrice(p)
  \/ GetBalance(p)
  \/ BuyUpdateBalance(p)
  \/ BuyGetPosition(p)
  \/ BuyWritePosition(p)
  \/ BuyLogTrade(p)
  \/ SellGetPosition(p)
  \/ SellUpdateBalance(p)
  \/ SellWritePosition(p)
  \/ SellLogTrade(p)

\* a request arrives while no other trade is in flight
ServeOrder(p, symbol, quantity, order_type) ==
  /\ SingleWriter(p)
  /\ FirstFree(p)
  /\ StartOrder(p, symbol, quantity, order_type)

NextStep ==
  \/ \E p \in Procs, s \in Symbols, q \in StepQuantities, t \in StepOrderTypes :
        ServeOrder(p, s, q, t)
  \/ \E p \in Procs : OrderStep(p)
  \/ \E p \in Procs : WriteFails(p)
  \/ \E p \in Procs : Stop(p)
  \/ \E s \in Symbols, c \in Closes : ImportBar(s, c)

SpecStep == Init /\ [][NextStep]_vars

\* ---------------------------------------------------------------- concurrent callers

\* a request arrives at a worker whatever the other worker is doing: every
\* execute_query opens its own connection, and place_order takes no lock and
\* opens no transaction around its statements
ReceiveOrder(p, symbol, quantity, order_type) ==
  StartOrder(p, symbol, quantity, order_type)

NextConc ==
  \/ \E p \in Procs, s \in Symbols, q \in StepQuantities, t \in StepOrderTypes :
        ReceiveOrder(p, s, q, t)
  \/ \E p \in Procs : OrderStep(p)
  \/ \E s \in Symbols, c \in Closes : ImportBar(s, c)

SpecConc == Init /\ [][NextConc]_vars

\* ---------------------------------------------------------------- properties of place_order

PlacedOrder == last.op = "place_order"

ActionIs(action) == Upper(last.order_type) = action

HasPrice == Truthy(last.price)

Unchanged == db = last.pre

\* C2: a BUY whose cost quantity x current price exceeds the cash balance fails
\* with InsufficientFunds and leaves balance, positions and trade log as they were
BuyOverBalance ==
  /\ PlacedOrder /\ ActionIs(BUY) /\ HasPrice
  /\ last.quantity * last.price.close > last.pre.balance

C2_InsufficientFunds ==
  BuyOverBalance => last.result = Error("InsufficientFunds") /\ Unchanged

C2_Witness ==
  /\ BuyOverBalance
  /\ last.result = Error("InsufficientFunds")
  /\ last.pre.balance > 0

\* C3 as stated: a SELL of more than the held quantity always fails with
\* InsufficientShares and leaves the position and the cash balance unchanged
SellOverHeld ==
  /\ PlacedOrder /\ ActionIs(SELL)
  /\ last.pre.positions[last.symbol] # None
  /\ last.quantity > last.pre.positions[last.symbol].quantity

C3_Original ==
  SellOverHeld => last.result = Error("InsufficientShares") /\ Unchanged

\* C3 amended: a SELL of more than the held quantity of a symbol that has a
\* current price fails with InsufficientShares and leaves the position and the
\* cash balance unchanged (without a current price it fails with NoPriceData)
C3_InsufficientShares ==
  SellOverHeld =>
    /\ last.result = Error(IF HasPrice THEN "InsufficientShares" ELSE "NoPriceData")
    /\ db.positions = last.pre.positions
    /\ db.balance = last.pre.balance

C3_Witness ==
  /\ SellOverHeld /\ HasPrice
  /\ last.result = Error("InsufficientShares")
  /\ last.pre.positions[last.symbol].quantity > 0

\* C4 as stated: a SELL for a symbol without an open position fails with
\* NoPosition and changes nothing
SellWithoutPosition ==
  /\ PlacedOrder /\ ActionIs(SELL)
  /\ last.pre.positions[last.symbol] = None

C4_Original ==
  SellWithoutPosition => last.result = Error("NoPosition") /\ Unchanged

\* C4 amended: a SELL for a symbol that has a current price and no open
\* position fails with NoPosition and changes nothing (without a current price
\* it fails with NoPriceData)
C4_NoPosition ==
  SellWithoutPosition =>
    /\ last.result = Error(IF HasPrice THEN "NoPosition" ELSE "NoPriceData")
    /\ Unchanged

C4_Witness ==
  /\ SellWithoutPosition /\ HasPrice
  /\ last.result = Error("NoPosition")
  /\ last.quantity > 0

\* C5: place_order for a symbol without a current price fails with NoPriceData
\* for BUY and for SELL and changes nothing
OrderWithoutPrice ==
  /\ PlacedOrder /\ ~HasPrice
  /\ (ActionIs(BUY) \/ ActionIs(SELL))

C5_NoPriceData ==
  OrderWithoutPrice => last.result = Error("NoPriceData") /\ Unchanged

C5_Witness ==
  /\ OrderWithoutPrice
  /\ last.result = Error("NoPriceData")
  /\ last.quantity > 0
  /\ last.pre.positions[last.symbol] # None

\* C6: an action that is neither BUY nor SELL, compared case-insensitively,
\* fails with InvalidOrderType in every state and for every symbol and changes
\* nothing
C6_InvalidOrderType ==
  PlacedOrder /\ ~ActionIs(BUY) /\ ~ActionIs(SELL) =>
    last.result = Error("InvalidOrderType") /\ Unchanged

\* C7: a zero or negative quantity is rejected before any state is touched,
\* for BUY and for SELL
C7_QuantityValidated ==
  PlacedOrder /\ last.quantity <= 0 /\ (ActionIs(BUY) \/ ActionIs(SELL)) =>
    last.result.status = "error" /\ Unchanged

\* C8: the cash balance equals the starting balance of the last reset minus the
\* cost of the successful BUYs plus the proceeds of the successful SELLs; a
\* failed order contributes nothing
C8_BalanceConservation == db.balance = expected

\* C9: no position row has quantity 0
C9_NoZeroPosition ==
  \A s \in Symbols : db.positions[s] # None => db.positions[s].quantity # 0

\* C10: after a successful SELL of exactly the held quantity of a symbol no
\* position exists for that symbol
SoldAll ==
  /\ PlacedOrder /\ ActionIs(SELL)
  /\ last.result.status = "success"
  /\ last.pre.positions[last.symbol] # None
  /\ last.quantity = last.pre.positions[last.symbol].quantity

C10_PositionDeleted == SoldAll => get_position(db, last.symbol) = None

C10_Witness ==
  /\ SoldAll
  /\ last.quantity > 0
  /\ get_position(db, last.symbol) = None

\* the most recent place_order call is the one of worker p
LatestCall(p) ==
  /\ proc[p].pc # "idle"
  /\ \A q \in Procs \ {p} : proc[q].seq < proc[p].seq

\* C1: the balance update, the position change and the trade log entry of a
\* place_order are one atomic unit: once the call has ended, also by the
\* process stopping or by a failed storage write, the balance has not changed
\* without the position change and the trade log entry
C1_Atomic ==
  \A p \in Procs :
    LatestCall(p) /\ proc[p].pc \in {"done", "stopped"}
      /\ db.balance # proc[p].snap.balance
    => /\ db.positions # proc[p].snap.positions
       /\ Len(db.trades) = Len(proc[p].snap.trades) + 1

\* ---------------------------------------------------------------- positions and average cost

\* a / b = c / d for fractions with non-zero denominators
SameFraction(a, b, c, d) == a * d = c * b

Succeeded(action) ==
  /\ PlacedOrder
  /\ last.result.status = "success"
  /\ last.result.order_type = action

PositionBefore == last.pre.positions[last.symbol]

PositionAfter == db.positions[last.symbol]

\* C11: every position has a non-negative quantity and a positive average cost
C11_PositionDomain ==
  \A s \in Symbols :
    db.positions[s] # None =>
      /\ db.positions[s].quantity >= 0
      /\ db.positions[s].average_cost.n > 0

\* C12: a successful BUY of q at p on a position (old_qty, old_avg) gives the
\* quantity old_qty + q and the average cost (old_qty x old_avg + q x p) /
\* (old_qty + q); on a symbol without a position it creates the position (q, p)
C12_AverageCost ==
  Succeeded("BUY") =>
    /\ PositionAfter # None
    /\ IF PositionBefore = None
         THEN /\ PositionAfter.quantity = last.quantity
              /\ SameFraction(PositionAfter.average_cost.n, PositionAfter.average_cost.d,
                              last.price.close, 1)
         ELSE /\ PositionAfter.quantity = PositionBefore.quantity + last.quantity
              /\ SameFraction(PositionAfter.average_cost.n, PositionAfter.average_cost.d,
                              PositionBefore.quantity * PositionBefore.average_cost.n
                                + last.quantity * last.price.close * PositionBefore.average_cost.d,
                              PositionBefore.average_cost.d
                                * (PositionBefore.quantity + last.quantity))

\* the second of two equal BUYs on an empty position: twice the quantity at
\* the same average cost
C12_Witness ==
  /\ Succeeded("BUY")
  /\ PositionBefore # None
  /\ last.quantity = 5
  /\ PositionBefore = [quantity |-> 5, average_cost |-> RatOf(last.price.close)]
  /\ PositionAfter = [quantity |-> 10, average_cost |-> RatOf(last.price.close)]

\* C13: a successful SELL that leaves the position open keeps its average cost
\* and lowers its quantity by exactly the sold quantity
C13_SellKeepsAverage ==
  Succeeded("SELL") /\ PositionAfter # None =>
    /\ PositionAfter.average_cost = PositionBefore.average_cost
    /\ PositionAfter.quantity = PositionBefore.quantity - last.quantity

C13_Witness ==
  /\ Succeeded("SELL")
  /\ PositionAfter # None
  /\ last.quantity > 0
  /\ PositionAfter.quantity > 0
  /\ PositionAfter.average_cost # RatOf(last.price.close)

\* C14: a successful SELL of q at p reports realized_pl = q x p - q x (average
\* cost before the sell) and realized_pl_pct = realized_pl / (q x average cost
\* before the sell) x 100, also when it closes the position
C14_RealizedPL ==
  Succeeded("SELL") =>
    LET q == last.quantity
        avg == PositionBefore.average_cost
        pl == last.result.realized_pl
        pct == last.result.realized_pl_pct
    IN /\ SameFraction(pl.n, pl.d, q * last.price.close * avg.d - q * avg.n, avg.d)
       /\ pct.n * (q * avg.n) * pl.d = 100 * pl.n * avg.d * pct.d

\* ---------------------------------------------------------------- trade log and reset

\* C16: a successful place_order appends exactly one entry (symbol, action,
\* quantity, price, balance_after) to the trade log, a failed one appends none,
\* and the entries that exist are neither changed nor deleted
C16_AppendOnly ==
  PlacedOrder =>
    IF last.result.status = "success"
      THEN /\ Len(db.trades) = Len(last.pre.trades) + 1
           /\ SubSeq(db.trades, 1, Len(last.pre.trades)) = last.pre.trades
           /\ LET e == db.trades[Len(db.trades)] IN
                /\ e.symbol = last.symbol
                /\ e.action = last.result.order_type
                /\ e.quantity = last.quantity
                /\ e.price = last.price.close
                /\ e.balance_after = db.balance
      ELSE db.trades = last.pre.trades

C16_Witness ==
  /\ PlacedOrder
  /\ last.result.status = "success"
  /\ Len(last.pre.trades) >= 1
  /\ Len(db.trades) = Len(last.pre.trades) + 1

\* C18: reset_account(b) leaves no position, no paper trade and balance =
\* starting_balance = b, and a second reset_account(b) changes nothing
WasReset == last.op = "reset_account"

C18_Reset ==
  WasReset =>
    /\ \A s \in Symbols : db.positions[s] = None
    /\ db.trades = <<>>
    /\ db.balance = last.starting_balance
    /\ db.starting_balance = last.starting_balance
    /\ reset_account(db, last.starting_balance) = db

C18_Witness ==
  /\ WasReset
  /\ \E s \in Symbols : last.pre.positions[s] # None
  /\ last.pre.trades # <<>>
  /\ last.pre.starting_balance # last.starting_balance
  /\ db.trades = <<>>

\* C17: every trade has a timestamp greater than that of every trade logged
\* before it, and get_trade_history(limit) returns the latest trades, at most
\* limit of them, in the reverse of the order they were executed in
Reverse(s) == [i \in DOMAIN s |-> s[Len(s) + 1 - i]]

AskedHistory == last.op = "get_trade_history"

ValuedPosition ==
  /\ last.op = "calculate_position_value"
  /\ last.pre.positions[last.symbol] # None

NoPrice(symbol) == market[symbol] = None

\* C19: the valuation of an open position has cost_basis = quantity x
\* average_cost, market_value = quantity x current_price, unrealized_pl =
\* market_value - cost_basis and unrealized_pl_pct = 0 when cost_basis is 0;
\* without a price for the symbol current_price is the average cost,
\* unrealized_pl is 0 and the result is a valuation, not an error
C19_PositionValue ==
  ValuedPosition =>
    LET position == last.pre.positions[last.symbol]
        v == last.result
    IN /\ "cost_basis" \in DOMAIN v
       /\ SameFraction(v.cost_basis.n, v.cost_basis.d,
                       position.quantity * position.average_cost.n, position.average_cost.d)
       /\ SameFraction(v.market_value.n, v.market_value.d,
                       position.quantity * v.current_price.n, v.current_price.d)
       /\ SameFraction(v.unrealized_pl.n, v.unrealized_pl.d,
                       v.market_value.n * v.cost_basis.d - v.cost_basis.n * v.market_value.d,
                       v.market_value.d * v.cost_basis.d)
       /\ (v.cost_basis.n = 0 => v.unrealized_pl_pct.n = 0)
       /\ IF NoPrice(last.symbol)
            THEN /\ v.current_price = position.average_cost
                 /\ v.unrealized_pl.n = 0
            ELSE v.current_price = RatOf(market[last.symbol].close)

C19_Witness ==
  /\ ValuedPosition
  /\ NoPrice(last.symbol)
  /\ last.pre.positions[last.symbol].quantity > 0
  /\ last.result.unrealized_pl.n = 0
  /\ last.result.market_value.n > 0

ValuedPortfolio == last.op = "calculate_portfolio_value"

OpenPositions(d) == {s \in Symbols : d.positions[s] # None}

RECURSIVE SumOf(_)
SumOf(s) == IF s = <<>> THEN RatOf(0) ELSE RatPlus(Head(s), SumOf(Tail(s)))

\* C20: the portfolio valuation lists one valuation per open position, its
\* totals are the sums of the listed market values and cost bases, total_pl is
\* their difference, and without positions the totals are 0 and the list empty
C20_PortfolioValue ==
  ValuedPortfolio =>
    LET v == last.result
        held == OpenPositions(last.pre)
    IN /\ Len(v.positions) = Cardinality(held)
       /\ {v.positions[i].symbol : i \in DOMAIN v.positions} = held
       /\ \A i \in DOMAIN v.positions :
            v.positions[i] = calculate_position_value(last.pre, market, v.positions[i].symbol)
       /\ v.total_market_value = SumOf([i \in DOMAIN v.positions |-> v.positions[i].market_value])
       /\ v.total_cost_basis = SumOf([i \in DOMAIN v.positions |-> v.positions[i].cost_basis])
       /\ SameFraction(v.total_pl.n, v.total_pl.d,
                       v.total_market_value.n * v.total_cost_basis.d
                         - v.total_cost_basis.n * v.total_market_value.d,
                       v.total_market_value.d * v.total_cost_basis.d)
       /\ (held = {} =>
             /\ v.positions = <<>>
             /\ v.total_market_value.n = 0
             /\ v.total_cost_basis.n = 0
             /\ v.total_pl.n = 0
             /\ v.total_pl_pct.n = 0)

C20_Witness ==
  /\ ValuedPortfolio
  /\ Len(last.result.positions) = 2
  /\ last.result.total_cost_basis.n > 0
  /\ last.result.total_pl.n # 0

\* ---------------------------------------------------------------- concurrent orders

\* the prices call p saw
MarketOf(p) == [market EXCEPT ![proc[p].symbol] = proc[p].current_price]

OrderOf(d, p) ==
  place_order(d, MarketOf(p), proc[p].symbol, proc[p].quantity, proc[p].order_type)

\* the calls of a and b run one after the other from d
SerialRun(d, a, b) ==
  LET first == OrderOf(d, a)
      second == OrderOf(first.db, b)
  IN [db |-> second.db, first |-> first.result, second |-> second.result]

\* the balance and the two results are those of the serial run of a, then b
SerialOutcome(d, a, b) ==
  LET run == SerialRun(d, a, b)
  IN /\ db.balance = run.db.balance
     /\ proc[a].result = run.first
     /\ proc[b].result = run.second

\* C15: when two place_order calls for positive quantities have returned, the
\* balance and the two results are those of running the two calls one after
\* the other in one of the two orders: no balance update is lost
C15_NoLostUpdate ==
  \A p, q \in Procs :
    /\ proc[p].seq = 1 /\ proc[p].pc = "done" /\ proc[p].quantity > 0
    /\ proc[q].seq = 2 /\ proc[q].pc = "done" /\ proc[q].quantity > 0
    => \/ SerialOutcome(proc[p].snap, p, q)
       \/ SerialOutcome(proc[p].snap, q, p)

\* ---------------------------------------------------------------- performance

AskedPerformance == last.op = "get_performance"

\* the price a position is valued at: the latest close, or the average cost
\* when the symbol has none
PriceOrAverage(position, symbol) ==
  IF NoPrice(symbol) THEN position.average_cost ELSE RatOf(market[symbol].close)

\* C21: positions_value is the sum over the open positions of quantity x
\* price, with the average cost in place of a missing price, and so equals the
\* total market value of the portfolio valuation; total_value = cash_balance +
\* positions_value and total_return = total_value - starting_balance
C21_Performance ==
  AskedPerformance =>
    LET v == last.result
        held == get_all_positions(last.pre)
    IN /\ v.positions_value =
            SumOf([i \in DOMAIN held |->
                     RatTimes(held[i].quantity, PriceOrAverage(held[i], held[i].symbol))])
       /\ v.positions_value = calculate_portfolio_value(last.pre, market).total_market_value
       /\ v.total_value = RatPlus(RatOf(v.cash_balance), v.positions_value)
       /\ v.total_return = RatMinus(v.total_value, RatOf(v.starting_balance))

\* ---------------------------------------------------------------- frame and balance

\* C22: a step that changes the position ledger is a place_order or a
\* reset_account
C22_OnlyExecutor ==
  [][db'.positions # db.positions => last'.op \in {"place_order", "reset_account"}]_vars

\* C28: the cash balance is never negative
C28_NonNegativeBalance == db.balance >= 0

\* the cash a logged trade moved: the cost of a BUY, minus the proceeds of a SELL
CashMoved(entry) ==
  IF entry.action = "BUY" THEN entry.quantity * entry.price
  ELSE 0 - entry.quantity * entry.price

\* C29: when trades are logged, the balance_after of the latest one is the
\* cash balance, and every entry's balance_after is that of the entry before
\* it minus the BUY cost or plus the SELL proceeds
C29_BalanceAfter ==
  /\ db.trades # <<>> => db.trades[Len(db.trades)].balance_after = db.balance
  /\ \A i \in DOMAIN db.trades :
       i > 1 => db.trades[i].balance_after
                  = db.trades[i - 1].balance_after - CashMoved(db.trades[i])

\* ---------------------------------------------------------------- signal detector

\* float('nan'): the value of an indicator with fewer bars than its window
NaN == [nan |-> TRUE]

Num(x) == RatOf(x)

IsNumber(x) == x # None /\ x # NaN

\* bool(x) of an Optional float: None and 0.0 are falsy, nan is truthy
FloatTruthy(x) == x # None /\ (x = NaN \/ x.n # 0)

\* mutant: nan ordered below every number
LessNaNFirst(a, b) ==
  /\ a # None /\ b # None
  /\ IF a = NaN THEN TRUE ELSE IF b = NaN THEN FALSE ELSE a.n * b.d < b.n * a.d

\* a < b on floats: False when either side is nan
Less(a, b) == IsNumber(a) /\ IsNumber(b) /\ a.n * b.d < b.n * a.d

\* a <= b on floats: False when either side is nan
LessEq(a, b) == IsNumber(a) /\ IsNumber(b) /\ a.n * b.d <= b.n * a.d

\* a - b, a * b and a / b on floats, nan when either side is nan
Minus(a, b) == IF a = NaN \/ b = NaN THEN NaN ELSE RatMinus(a, b)

Times(a, b) == IF a = NaN \/ b = NaN THEN NaN ELSE Rat(a.n * b.n, a.d * b.d)

Over(a, b) ==
  IF a = NaN \/ b = NaN THEN NaN
  ELSE IF b.n = 0 THEN NaN
  ELSE Rat(a.n * b.d, a.d * b.n)

\* the indicator columns add_all_ta_features adds that find_signals reads
TaColumns ==
  {"momentum_rsi", "trend_macd", "trend_macd_signal", "volatility_bbh", "volatility_bbl"}

\* the columns _calculate_basic_indicators adds that find_signals reads
BasicColumns == {"sma_20", "sma_50", "macd", "macd_signal", "rsi", "bb_upper", "bb_lower"}

\* with the ta library, without it, and after an exception in the calculation,
\* which returns the frame without indicator columns
ColumnSets == {TaColumns, BasicColumns, {}}

\* the value a bar has in a column, r being the indicators of the series at the bar
Cell(column, r) ==
  CASE column \in {"momentum_rsi", "rsi"} -> r.rsi
    [] column \in {"trend_macd", "macd"} -> r.macd
    [] column \in {"trend_macd_signal", "macd_signal"} -> r.macd_signal
    [] column = "sma_20" -> r.sma_20
    [] column = "sma_50" -> r.sma_50
    [] column \in {"volatility_bbh", "bb_upper"} -> r.bb_upper
    [] column \in {"volatility_bbl", "bb_lower"} -> r.bb_lower
    [] OTHER -> r.close

Row(columns, r) == [c \in columns \cup {"close"} |-> Cell(c, r)]

\* latest = df.iloc[-1]
Latest(f) == Row(f.columns, f.reading.latest)

\* previous = df.iloc[-2] if len(df) > 1 else None
Previous(f) == IF f.nbars > 1 THEN Row(f.columns, f.reading.previous) ELSE None

\* row.get(key, default)
Get(row, key, default) == IF key \in DOMAIN row THEN row[key] ELSE default

Signal(type, indicator, strength, value) ==
  [type |-> type, indicator |-> indicator, strength |-> strength, value |-> value]

\* RSI signals
RsiSignals(f) ==
  IF "rsi" \in f.columns \/ "momentum_rsi" \in f.columns
    THEN LET rsi == Get(Latest(f), "momentum_rsi", Get(Latest(f), "rsi", None)) IN
         IF FloatTruthy(rsi) /\ Less(rsi, Num(30))
           THEN <<Signal("BUY", "RSI_OVERSOLD",
                         Times(Over(Minus(Num(30), rsi), Num(30)), Num(100)), rsi)>>
         ELSE IF FloatTruthy(rsi) /\ Less(Num(70), rsi)
           THEN <<Signal("SELL", "RSI_OVERBOUGHT",
                         Times(Over(Minus(rsi, Num(70)), Num(30)), Num(100)), rsi)>>
         ELSE <<>>
    ELSE <<>>

\* MACD signals
MacdSignals(f) ==
  IF Previous(f) = None THEN <<>>
  ELSE
    LET macd_col == IF "trend_macd" \in f.columns THEN "trend_macd" ELSE "macd"
        signal_col == IF "trend_macd_signal" \in f.columns THEN "trend_macd_signal"
                      ELSE "macd_signal"
    IN IF ~(macd_col \in f.columns /\ signal_col \in f.columns) THEN <<>>
       ELSE
         LET macd_current == Get(Latest(f), macd_col, None)
             signal_current == Get(Latest(f), signal_col, None)
             macd_prev == Get(Previous(f), macd_col, None)
             signal_prev == Get(Previous(f), signal_col, None)
         IN IF ~(/\ FloatTruthy(macd_current) /\ FloatTruthy(signal_current)
                 /\ FloatTruthy(macd_prev) /\ FloatTruthy(signal_prev))
              THEN <<>>
            ELSE IF Less(signal_current, macd_current) /\ LessEq(macd_prev, signal_prev)
              THEN <<Signal("BUY", "MACD_CROSS_BULLISH", Num(75),
                            Minus(macd_current, signal_current))>>
            ELSE IF Less(macd_current, signal_current) /\ LessEq(signal_prev, macd_prev)
              THEN <<Signal("SELL", "MACD_CROSS_BEARISH", Num(75),
                            Minus(signal_current, macd_current))>>
            ELSE <<>>

\* Moving Average crossovers
MaSignals(f) ==
  IF ~("sma_20" \in f.columns /\ "sma_50" \in f.columns /\ Previous(f) # None) THEN <<>>
  ELSE
    LET sma20_current == Latest(f)["sma_20"]
        sma50_current == Latest(f)["sma_50"]
        sma20_prev == Previous(f)["sma_20"]
        sma50_prev == Previous(f)["sma_50"]
    IN IF ~(/\ FloatTruthy(sma20_current) /\ FloatTruthy(sma50_current)
            /\ FloatTruthy(sma20_prev) /\ FloatTruthy(sma50_prev))
         THEN <<>>
       ELSE IF Less(sma50_current, sma20_current) /\ LessEq(sma20_prev, sma50_prev)
         THEN <<Signal("BUY", "MA_GOLDEN_CROSS", Num(80),
                       Minus(sma20_current, sma50_current))>>
       ELSE IF Less(sma20_current, sma50_current) /\ LessEq(sma50_prev, sma20_prev)
         THEN <<Signal("SELL", "MA_DEATH_CROSS", Num(80),
                       Minus(sma50_current, sma20_current))>>
       ELSE <<>>

\* mutant: the lower band without the 1% margin
NearLowerBandExact(close, bb_lower) == LessEq(close, bb_lower)

\* close <= bb_lower * 1.01
NearLowerBand(close, bb_lower) == LessEq(close, Times(bb_lower, Rat(101, 100)))

\* close >= bb_upper * 0.99
NearUpperBand(close, bb_upper) == LessEq(Times(bb_upper, Rat(99, 100)), close)

\* Bollinger Bands
BbSignals(f) ==
  LET bb_upper == Get(Latest(f), "volatility_bbh", Get(Latest(f), "bb_upper", None))
      bb_lower == Get(Latest(f), "volatility_bbl", Get(Latest(f), "bb_lower", None))
      close == Latest(f)["close"]
  IN IF ~(FloatTruthy(bb_upper) /\ FloatTruthy(bb_lower)) THEN <<>>
     ELSE IF NearLowerBand(close, bb_lower)
       THEN <<Signal("BUY", "BB_OVERSOLD", Num(65),
                     Times(Over(Minus(bb_lower, close), bb_lower), Num(100)))>>
     ELSE IF NearUpperBand(close, bb_upper)
       THEN <<Signal("SELL", "BB_OVERBOUGHT", Num(65),
                     Times(Over(Minus(close, bb_upper), bb_upper), Num(100)))>>
     ELSE <<>>

\* no statement of the try block raises on floats, nan and missing columns, so
\* the except branch (return []) is not taken
find_signals(f) ==
  IF f.nbars = 0 THEN <<>>
  ELSE RsiSignals(f) \o MacdSignals(f) \o MaSignals(f) \o BbSignals(f)

\* the indicator values of the series at the latest and at the previous bar
RsiAll == {Num(0), Num(15), Num(30), Num(50), Num(70), Num(85), NaN}

RsiFew == {Num(15), NaN}

Lines == {Num(-1), Num(0), Num(1), NaN}

MacdAll == [cur : Lines, sig : Lines, prev : Lines, sigprev : Lines]

MacdFew ==
  {[cur |-> Num(1), sig |-> Num(-1), prev |-> Num(-1), sigprev |-> Num(1)],
   [cur |-> NaN, sig |-> NaN, prev |-> NaN, sigprev |-> NaN]}

Averages == {Num(100), Num(110), NaN}

SmaAll == [s20 : Averages, s50 : Averages, p20 : Averages, p50 : Averages]

SmaFew ==
  {[s20 |-> Num(110), s50 |-> Num(100), p20 |-> Num(100), p50 |-> Num(110)],
   [s20 |-> NaN, s50 |-> NaN, p20 |-> NaN, p50 |-> NaN]}

\* both bands come from one rolling window: they are defined together, the
\* lower one at most the upper one, and undefined when the close is
Bands(close, lower, upper) == [close |-> close, lower |-> lower, upper |-> upper]

BbAll ==
  {Bands(Num(100), Num(98), Num(130)), Bands(Num(100), Rat(199, 2), Num(130)),
   Bands(Num(100), Num(120), Num(130)), Bands(Num(100), Num(98), Num(101)),
   Bands(Num(100), Num(90), Num(95)), Bands(Num(100), Num(100), Num(100)),
   Bands(Num(100), Num(0), Num(130)), Bands(Num(100), NaN, NaN), Bands(NaN, NaN, NaN)}

BbFew ==
  {[close |-> Num(100), lower |-> Num(100), upper |-> Num(130)],
   [close |-> Num(100), lower |-> NaN, upper |-> NaN]}

Reading(r, m, s, b) ==
  [latest |-> [rsi |-> r, macd |-> m.cur, macd_signal |-> m.sig,
               sma_20 |-> s.s20, sma_50 |-> s.s50,
               bb_upper |-> b.upper, bb_lower |-> b.lower, close |-> b.close],
   previous |-> [rsi |-> NaN, macd |-> m.prev, macd_signal |-> m.sigprev,
                 sma_20 |-> s.p20, sma_50 |-> s.p50,
                 bb_upper |-> NaN, bb_lower |-> NaN, close |-> b.close]]

\* one indicator over all its values, the others over two
Readings ==
  {Reading(r, m, s, b) : r \in RsiAll, m \in MacdFew, s \in SmaFew, b \in BbFew}
  \cup {Reading(r, m, s, b) : r \in RsiFew, m \in MacdAll, s \in SmaFew, b \in BbFew}
  \cup {Reading(r, m, s, b) : r \in RsiFew, m \in MacdFew, s \in SmaAll, b \in BbFew}
  \cup {Reading(r, m, s, b) : r \in RsiFew, m \in MacdFew, s \in SmaFew, b \in BbAll}

\* the frames calculate_indicators returns for one bar and for several
Frames ==
  {[columns |-> c, nbars |-> n, reading |-> r] :
     c \in ColumnSets, n \in {1, 2}, r \in Readings}
  \cup {NoBars}

InitSignals ==
  /\ Installed
  /\ frame \in Frames
  /\ signals = NotRun
  /\ ws = Unconnected

\* GET /signals/{symbol}
FindSignals ==
  /\ ~signals.ran
  /\ signals' = [ran |-> TRUE, result |-> find_signals(frame)]
  /\ UNCHANGED <<trading, frame, ws>>

NextSignals == FindSignals

SpecSignals == InitSignals /\ [][NextSignals]_vars

\* ---------------------------------------------------------------- signals

\* the number of returned signals of an indicator
Emitted(indicator) ==
  Cardinality({i \in DOMAIN signals.result : signals.result[i].indicator = indicator})

\* every returned signal of the indicator has the type and the strength n / d
EmittedAs(indicator, type, n, d) ==
  \A i \in DOMAIN signals.result :
    signals.result[i].indicator = indicator =>
      /\ signals.result[i].type = type
      /\ IsNumber(signals.result[i].strength)
      /\ SameFraction(signals.result[i].strength.n, signals.result[i].strength.d, n, d)

\* the indicators were calculated for a frame of at least two bars
Calculated == signals.ran /\ frame.nbars = 2 /\ frame.columns # {}

Now == frame.reading.latest

Before == frame.reading.previous

\* C23: for a defined RSI r of the latest bar in [0, 100]: exactly one
\* BUY/RSI_OVERSOLD of strength (30 - r)/30 x 100 when r < 30, exactly one
\* SELL/RSI_OVERBOUGHT of strength (r - 70)/30 x 100 when r > 70, no RSI signal
\* when 30 <= r <= 70
C23_RsiSignals ==
  (/\ signals.ran /\ frame.nbars > 0 /\ frame.columns # {}
   /\ IsNumber(Now.rsi) /\ 0 <= Now.rsi.n /\ Now.rsi.n <= 100 * Now.rsi.d)
  => LET r == Now.rsi IN
     IF r.n < 30 * r.d
       THEN /\ Emitted("RSI_OVERSOLD") = 1
            /\ Emitted("RSI_OVERBOUGHT") = 0
            /\ EmittedAs("RSI_OVERSOLD", "BUY", (30 * r.d - r.n) * 100, 30 * r.d)
     ELSE IF r.n > 70 * r.d
       THEN /\ Emitted("RSI_OVERBOUGHT") = 1
            /\ Emitted("RSI_OVERSOLD") = 0
            /\ EmittedAs("RSI_OVERBOUGHT", "SELL", (r.n - 70 * r.d) * 100, 30 * r.d)
     ELSE Emitted("RSI_OVERSOLD") = 0 /\ Emitted("RSI_OVERBOUGHT") = 0

\* a crosses from <= b on the previous bar to > b on the latest bar
CrossesAbove(a, b, a_prev, b_prev) ==
  a_prev.n * b_prev.d <= b_prev.n * a_prev.d /\ a.n * b.d > b.n * a.d

\* C24: when SMA20 crosses above SMA50 between the two latest bars there is
\* exactly one BUY/MA_GOLDEN_CROSS of strength 80 and no MA_DEATH_CROSS, when
\* it crosses below exactly one SELL/MA_DEATH_CROSS of strength 80 and no
\* golden cross, and without a transition neither
C24_MaCross ==
  (/\ Calculated
   /\ IsNumber(Now.sma_20) /\ IsNumber(Now.sma_50)
   /\ IsNumber(Before.sma_20) /\ IsNumber(Before.sma_50))
  => IF CrossesAbove(Now.sma_20, Now.sma_50, Before.sma_20, Before.sma_50)
       THEN /\ Emitted("MA_GOLDEN_CROSS") = 1
            /\ Emitted("MA_DEATH_CROSS") = 0
            /\ EmittedAs("MA_GOLDEN_CROSS", "BUY", 80, 1)
     ELSE IF CrossesAbove(Now.sma_50, Now.sma_20, Before.sma_50, Before.sma_20)
       THEN /\ Emitted("MA_DEATH_CROSS") = 1
            /\ Emitted("MA_GOLDEN_CROSS") = 0
            /\ EmittedAs("MA_DEATH_CROSS", "SELL", 80, 1)
     ELSE Emitted("MA_GOLDEN_CROSS") = 0 /\ Emitted("MA_DEATH_CROSS") = 0

\* C25: a BUY/MACD_CROSS_BULLISH of strength 75 is emitted exactly when the
\* MACD line crosses above the signal line between the two latest bars, a
\* SELL/MACD_CROSS_BEARISH of strength 75 exactly when it crosses below, for
\* all values of the lines, 0 included, and never both
C25_MacdCross ==
  (/\ Calculated
   /\ IsNumber(Now.macd) /\ IsNumber(Now.macd_signal)
   /\ IsNumber(Before.macd) /\ IsNumber(Before.macd_signal))
  => /\ Emitted("MACD_CROSS_BULLISH") =
          (IF CrossesAbove(Now.macd, Now.macd_signal, Before.macd, Before.macd_signal)
             THEN 1 ELSE 0)
     /\ Emitted("MACD_CROSS_BEARISH") =
          (IF CrossesAbove(Now.macd_signal, Now.macd, Before.macd_signal, Before.macd)
             THEN 1 ELSE 0)
     /\ EmittedAs("MACD_CROSS_BULLISH", "BUY", 75, 1)
     /\ EmittedAs("MACD_CROSS_BEARISH", "SELL", 75, 1)
     /\ Emitted("MACD_CROSS_BULLISH") + Emitted("MACD_CROSS_BEARISH") <= 1

\* close <= lower x 1.01, and close >= upper x 0.99
AtLowerBand == Now.close.n * Now.bb_lower.d * 100 <= Now.bb_lower.n * 101 * Now.close.d

AtUpperBand == Now.close.n * Now.bb_upper.d * 100 >= Now.bb_upper.n * 99 * Now.close.d

\* the strength of every returned signal lies in 0 .. 100
StrengthsInRange ==
  \A i \in DOMAIN signals.result :
    /\ IsNumber(signals.result[i].strength)
    /\ 0 <= signals.result[i].strength.n
    /\ signals.result[i].strength.n <= 100 * signals.result[i].strength.d

\* both bands and the close of the latest bar are numbers, the bands not 0
BandsDefined ==
  /\ signals.ran /\ frame.nbars > 0 /\ frame.columns # {}
  /\ IsNumber(Now.close) /\ IsNumber(Now.bb_lower) /\ IsNumber(Now.bb_upper)
  /\ Now.bb_lower.n # 0 /\ Now.bb_upper.n # 0

\* the returned signals of the indicator have the value n / d
ValuedAs(indicator, n, d) ==
  \A i \in DOMAIN signals.result :
    signals.result[i].indicator = indicator =>
      /\ IsNumber(signals.result[i].value)
      /\ SameFraction(signals.result[i].value.n, signals.result[i].value.d, n, d)

\* C26 as stated: at the lower band a BUY Bollinger signal of strength (lower -
\* close)/lower x 100, at the upper band a SELL Bollinger signal of strength
\* (close - upper)/upper x 100, and every strength in 0 .. 100
C26_Original ==
  BandsDefined =>
    /\ AtLowerBand =>
         /\ Emitted("BB_OVERSOLD") = 1
         /\ EmittedAs("BB_OVERSOLD", "BUY",
                      (Now.bb_lower.n * Now.close.d - Now.close.n * Now.bb_lower.d) * 100,
                      Now.bb_lower.n * Now.close.d)
    /\ AtUpperBand =>
         /\ Emitted("BB_OVERBOUGHT") = 1
         /\ EmittedAs("BB_OVERBOUGHT", "SELL",
                      (Now.close.n * Now.bb_upper.d - Now.bb_upper.n * Now.close.d) * 100,
                      Now.bb_upper.n * Now.close.d)
    /\ StrengthsInRange

\* C26: at the lower band exactly one BUY/BB_OVERSOLD of strength 65 and value
\* (lower - close)/lower x 100 and no BB_OVERBOUGHT; otherwise, at the upper
\* band, exactly one SELL/BB_OVERBOUGHT of strength 65 and value (close -
\* upper)/upper x 100; otherwise no Bollinger signal; every strength in 0 .. 100
C26_Bollinger ==
  /\ signals.ran => StrengthsInRange
  /\ BandsDefined =>
       IF AtLowerBand
         THEN /\ Emitted("BB_OVERSOLD") = 1
              /\ Emitted("BB_OVERBOUGHT") = 0
              /\ EmittedAs("BB_OVERSOLD", "BUY", 65, 1)
              /\ ValuedAs("BB_OVERSOLD",
                          (Now.bb_lower.n * Now.close.d - Now.close.n * Now.bb_lower.d) * 100,
                          Now.bb_lower.n * Now.close.d)
       ELSE IF AtUpperBand
         THEN /\ Emitted("BB_OVERBOUGHT") = 1
              /\ Emitted("BB_OVERSOLD") = 0
              /\ EmittedAs("BB_OVERBOUGHT", "SELL", 65, 1)
              /\ ValuedAs("BB_OVERBOUGHT",
                          (Now.close.n * Now.bb_upper.d - Now.bb_upper.n * Now.close.d) * 100,
                          Now.bb_upper.n * Now.close.d)
       ELSE Emitted("BB_OVERSOLD") = 0 /\ Emitted("BB_OVERBOUGHT") = 0

\* close within the 1% margin above the lower band: a BUY with a negative value
C26_Witness ==
  /\ BandsDefined
  /\ AtLowerBand
  /\ Now.close.n * Now.bb_lower.d > Now.bb_lower.n * Now.close.d
  /\ Emitted("BB_OVERSOLD") = 1

\* an indicator whose value is undefined at one of the bars it reads
RsiUndefined == Now.rsi = NaN

MacdUndefined == NaN \in {Now.macd, Now.macd_signal, Before.macd, Before.macd_signal}

MaUndefined == NaN \in {Now.sma_20, Now.sma_50, Before.sma_20, Before.sma_50}

BbUndefined == NaN \in {Now.close, Now.bb_lower, Now.bb_upper}

\* the same series with the indicator defined and away from its thresholds
WithRsi(f) == [f EXCEPT !.reading.latest.rsi = Num(50)]

WithMacd(f) ==
  [f EXCEPT !.reading.latest.macd = Num(1), !.reading.latest.macd_signal = Num(1),
            !.reading.previous.macd = Num(1), !.reading.previous.macd_signal = Num(1)]

WithMa(f) ==
  [f EXCEPT !.reading.latest.sma_20 = Num(100), !.reading.latest.sma_50 = Num(100),
            !.reading.previous.sma_20 = Num(100), !.reading.previous.sma_50 = Num(100)]

WithBb(f) ==
  [f EXCEPT !.reading.latest.close = Num(100), !.reading.latest.bb_lower = Num(50),
            !.reading.latest.bb_upper = Num(200)]

\* the same latest bar after a previous bar without a crossover
WithPrevious(f) == [WithMa(WithMacd(f)) EXCEPT !.nbars = 2]

Connect(c) ==
  /\ ws.connects < MaxConnects
  /\ c \notin ws.active_connections
  /\ LET active == ws.active_connections \cup {c} IN
       ws' = [ws EXCEPT !.active_connections = active,
                        !.tasks = IF Cardinality(active) = 1 THEN Append(@, "ready") ELSE @,
                        !.connects = @ + 1]
  /\ UNCHANGED <<trading, frame, signals>>

\* except WebSocketDisconnect: manager.disconnect(websocket)
Disconnect(c) ==
  /\ c \in ws.active_connections
  /\ ws' = [ws EXCEPT !.active_connections = @ \ {c}]
  /\ UNCHANGED <<trading, frame, signals>>

\* one round of the while True loop of a stream_quotes task: the quotes
\* message to every connection, then asyncio.sleep(2)
Broadcast(t) ==
  /\ t \in DOMAIN ws.tasks
  /\ ws.tasks[t] = "ready"
  /\ ws' = [ws EXCEPT !.tasks[t] = "sleeping",
                      !.received = [c \in Clients |->
                                      IF c \in ws.active_connections THEN @[c] + 1 ELSE @[c]]]
  /\ UNCHANGED <<trading, frame, signals>>

\* the two seconds pass: every task wakes up for the next periodic broadcast
Period ==
  /\ ws.periods < MaxPeriods
  /\ ws.tasks # <<>>
  /\ \A t \in DOMAIN ws.tasks : ws.tasks[t] = "sleeping"
  /\ ws' = [ws EXCEPT !.tasks = [t \in DOMAIN ws.tasks |-> "ready"],
                      !.received = [c \in Clients |-> 0],
                      !.periods = @ + 1]
  /\ UNCHANGED <<trading, frame, signals>>

NextQuotes ==
  \/ \E c \in Clients : Connect(c)
  \/ \E c \in Clients : Disconnect(c)
  \/ \E t \in 1..MaxConnects : Broadcast(t)
  \/ Period

SpecQuotes == Init /\ [][NextQuotes]_vars

\* C30: at most one stream_quotes task runs, and no client receives the
\* quotes broadcast of a period more than once
C30_OneStream ==
  /\ Len(ws.tasks) <= 1
  /\ \A c \in Clients : ws.received[c] <= 1

====
